---- MODULE Spec2Model ----
(***************************************************************************)
(* Model of the abacus-analysis HTTP service (src/main.py).                *)
(*                                                                         *)
(* State: the file system the service touches, the server's up/down flag,  *)
(* and, per POST /analisar/ request, the locals of analisar_imagem and of  *)
(* analisar_imagem_pil together with the request's position in the handler.*)
(* Text is a sequence of symbols (one string per character or per fixed    *)
(* literal), so that split, join and the CSV parse are really computed.    *)
(***************************************************************************)
EXTENDS Integers, Sequences, FiniteSets, TLC

VARIABLES up, files, req, dl

vars == <<up, files, req, dl>>

----------------------------------------------------------------------------
(* Bounds of the model *)

NumReqs == 2
MaxNames == 2
MaxDim == 3003

(* Program constants *)

LIMITE_QUADRANTES == 3000
LIMITE_METADES == 2000

\* Python's None, per type: a text, a path, an upload, a response.
None == <<"None">>
NoPath == [dir |-> "", stem |-> 0, suffix |-> ""]
NoFile == [filename |-> "", valid |-> FALSE, w |-> 0, h |-> 0, truncated |-> FALSE]
NoResp == [status |-> 0]

Reqs == 1..NumReqs

----------------------------------------------------------------------------
(* Text helpers: str.split, str.join, int() *)

RECURSIVE Split(_, _)
Split(s, sep) ==
    IF s = <<>> THEN << <<>> >>
    ELSE LET rest == Split(Tail(s), sep) IN
         IF Head(s) = sep THEN << <<>> >> \o rest
         ELSE << <<Head(s)>> \o Head(rest) >> \o Tail(rest)

RECURSIVE Join(_, _)
Join(parts, sep) ==
    IF parts = <<>> THEN <<>>
    ELSE IF Len(parts) = 1 THEN parts[1]
    ELSE parts[1] \o <<sep>> \o Join(Tail(parts), sep)

Digits == {"0", "1", "2", "3", "4", "5", "6", "7", "8", "9"}

\* int(v) raises ValueError unless v is a non-empty run of digits.
IsInt(tok) == tok # <<>> /\ \A k \in 1..Len(tok) : tok[k] \in Digits

\* colors.split(",") if colors else []
lista_cores(colors) ==
    IF colors = None \/ colors = <<>> THEN <<>> ELSE Split(colors, ",")

ValueError == << <<"ValueError">> >>

\* [int(v) for v in values.split(",")] if values else []
lista_valores(values) ==
    IF values = None \/ values = <<>> THEN <<>>
    ELSE LET toks == Split(values, ",") IN
         IF \A k \in 1..Len(toks) : IsInt(toks[k]) THEN toks ELSE ValueError

----------------------------------------------------------------------------
(* dividir_imagem: the tiles as crop boxes <<left, upper, right, lower>>.   *)
(* crop = FALSE marks the image itself, returned uncropped.                *)

Crop(l, u, r, b) == [box |-> <<l, u, r, b>>, crop |-> TRUE]

\* Mutant: the thresholds compared with >= instead of >.
dividir_imagem_ge(width, height) ==
    IF width >= LIMITE_QUADRANTES /\ height >= LIMITE_QUADRANTES THEN
        << Crop(0, 0, width \div 2, height \div 2),
           Crop(width \div 2, 0, width, height \div 2),
           Crop(0, height \div 2, width \div 2, height),
           Crop(width \div 2, height \div 2, width, height) >>
    ELSE IF width >= LIMITE_METADES THEN
        << Crop(0, 0, width \div 2, height),
           Crop(width \div 2, 0, width, height) >>
    ELSE IF height >= LIMITE_METADES THEN
        << Crop(0, 0, width, height \div 2),
           Crop(0, height \div 2, width, height) >>
    ELSE << [box |-> <<0, 0, width, height>>, crop |-> FALSE] >>

dividir_imagem(width, height) ==
    IF width > LIMITE_QUADRANTES /\ height > LIMITE_QUADRANTES THEN
        << Crop(0, 0, width \div 2, height \div 2),
           Crop(width \div 2, 0, width, height \div 2),
           Crop(0, height \div 2, width \div 2, height),
           Crop(width \div 2, height \div 2, width, height) >>
    ELSE IF width > LIMITE_METADES THEN
        << Crop(0, 0, width \div 2, height),
           Crop(width \div 2, 0, width, height) >>
    ELSE IF height > LIMITE_METADES THEN
        << Crop(0, 0, width, height \div 2),
           Crop(0, height \div 2, width, height) >>
    ELSE << [box |-> <<0, 0, width, height>>, crop |-> FALSE] >>

----------------------------------------------------------------------------
(* analisar_imagem_pil: one model call per tile *)

PROMPT_FIXO == "PROMPT_FIXO"

DigitOf(i) == CASE i = 1 -> "1" [] i = 2 -> "2" [] i = 3 -> "3" [] OTHER -> "4"

\* f"Erro na parte {i}: {str(e)}"
ErroParte(i, e) == <<"Erro na parte ", DigitOf(i), ": ", e>>

\* The body of the loop for tile i, given what generate_content did:
\* o.kind = "text" (response.text = o.text) or o.kind = "raise".
resultados_apos(resultados, i, o) ==
    IF o.kind = "raise" THEN Append(resultados, ErroParte(i, o.e))
    ELSE IF o.text # <<>> THEN Append(resultados, o.text)
    ELSE resultados

\* Mutant: the loop also ends at the first call that raises.
fim_do_laco_no_erro(i, partes, o) == i >= Len(partes) \/ o.kind = "raise"

\* for i, parte in enumerate(partes, start=1): the loop ends after the turn
\* for the last tile, whatever generate_content did in it.
fim_do_laco(i, partes, o) == i >= Len(partes)

\* "\n".join(resultados)
texto_final(resultados) == Join(resultados, "\n")

----------------------------------------------------------------------------
(* pd.read_csv on a text: [ok |-> FALSE] when it raises, else the table as *)
(* a sequence of rows, the header first.  Blank lines are skipped; no line at all raises           *)
(* EmptyDataError; a line after the first data line with more fields than  *)
(* the lines before it raises ParserError; short rows are padded.          *)

NaN == <<"NaN">>

Max(a, b) == IF a > b THEN a ELSE b

NonBlank(l) == l # <<>>

Pad(row, n) == [k \in 1..Max(n, Len(row)) |-> IF k <= Len(row) THEN row[k] ELSE NaN]

read_csv(text, sep) ==
    LET lines == SelectSeq(Split(text, "\n"), NonBlank)
        rows  == [k \in 1..Len(lines) |-> Split(lines[k], sep)]
        width == IF Len(rows) >= 2 THEN Max(Len(rows[1]), Len(rows[2]))
                 ELSE Len(rows[1])
    IN  IF lines = <<>> THEN [ok |-> FALSE, df |-> <<>>]
        ELSE IF \E k \in 3..Len(rows) : Len(rows[k]) > width
        THEN [ok |-> FALSE, df |-> <<>>]
        ELSE [ok |-> TRUE, df |-> [k \in 1..Len(rows) |-> Pad(rows[k], width)]]

\* pd.DataFrame({"Erro": [f"Não foi possível processar o resultado: {resultado}"]})
tabela_erro(resultado) ==
    << << <<"Erro">> >>, << <<"Nao foi possivel processar o resultado: ">> \o resultado >> >>

\* Mutant: the semicolon parse attempted first.
converte_ponto_e_virgula_primeiro(resultado) ==
    LET s == read_csv(resultado, ";") IN
    IF s.ok THEN [tried |-> <<";">>, df |-> s.df]
    ELSE LET c == read_csv(resultado, ",") IN
         IF c.ok THEN [tried |-> <<";", ",">>, df |-> c.df]
         ELSE [tried |-> <<";", ",">>, df |-> tabela_erro(resultado)]

\* Lines 150-157: the nested try/except.  tried is the sequence of
\* separators whose parse was attempted, df the DataFrame it ends with.
converte(resultado) ==
    LET c == read_csv(resultado, ",") IN
    IF c.ok THEN [tried |-> <<",">>, df |-> c.df]
    ELSE LET s == read_csv(resultado, ";") IN
         IF s.ok THEN [tried |-> <<",", ";">>, df |-> s.df]
         ELSE [tried |-> <<",", ";">>, df |-> tabela_erro(resultado)]

----------------------------------------------------------------------------
(* The file system.  A path is [dir, stem, suffix], the stem a number      *)
(* standing for the file's name (0: the directory itself); files maps the  *)
(* paths of the regular files to their content, a table; the directories   *)
(* are fixed.                                                              *)

\* tempfile.gettempdir() with TMPDIR unset: the directory the glob of
\* shutdown_event names.
gettempdir == "/tmp"

Path(d, n, x) == [dir |-> d, stem |-> n, suffix |-> x]

DirPath(d) == Path(d, 0, "")

Dirs == {DirPath(gettempdir)}

StaticFile == Path("/etc", 1, ".conf")

EmptyFile == <<>>

StaticContent == << << <<"host">> >> >>

\* os.path.exists: true of regular files and of directories alike.
exists(fs, p) == p \in DOMAIN fs \/ p \in Dirs

isfile(fs, p) == p \in DOMAIN fs

\* Mutant: a name is taken whether or not it is in use.
NomesQuaisquer(fs, d) == {Path(d, n, ".xlsx") : n \in 1..MaxNames}

\* NamedTemporaryFile(delete=False, suffix=".xlsx"): the names mkstemp may
\* return, those that name nothing in the temp directory (O_EXCL).
NomesLivres(fs, d) ==
    {p \in {Path(d, n, ".xlsx") : n \in 1..MaxNames} : ~exists(fs, p)}

\* Mutant: the temp file opened with delete=True, gone when the with block
\* is left.
to_excel_delete_true(fs, path, df) == [p \in DOMAIN fs \ {path} |-> fs[p]]

\* df.to_excel(excel_path, index=False, engine='openpyxl')
to_excel(fs, path, df) == (path :> df) @@ fs

\* Mutant: the error handler does not unlink.
nao_apaga(fs, path) == fs

\* if excel_path and os.path.exists(excel_path): os.unlink(excel_path)
\* (the unlink of the request's own, just created file is taken to succeed)
apaga_se_existe(fs, path) ==
    IF path # NoPath /\ exists(fs, path)
    THEN [p \in DOMAIN fs \ {path} |-> fs[p]]
    ELSE fs

\* glob.glob("/tmp/*.xlsx")
glob_tmp_xlsx(fs) == {p \in DOMAIN fs : p.dir = "/tmp" /\ p.suffix = ".xlsx"}

\* shutdown_event with the unlinks of `falhas` raising (swallowed by the
\* bare except).
shutdown_event(fs, falhas) ==
    [p \in DOMAIN fs \ (glob_tmp_xlsx(fs) \ falhas) |-> fs[p]]

\* FastAPI(lifespan=lifespan): a lifespan is passed to the application.
\* Handlers registered with on_event("shutdown") are run by the default
\* lifespan only; with a lifespan passed they are never called, and the
\* lifespan itself has no code after its yield.
lifespan_passado == TRUE

----------------------------------------------------------------------------
(* Responses *)

\* JSONResponse({...}) of lines 165-170
resposta_ok(file, resultado, excel_path) ==
    [status |-> 200,
     arquivo |-> file.filename,
     resultado_csv |-> resultado,
     excel_download |-> <<"/download_excel/?path=", excel_path>>,
     mensagem |-> "Analise concluida com sucesso!"]

\* Mutant: the error body returned without status_code=500.
resposta_erro_200(e) == [status |-> 200, erro |-> e]

\* JSONResponse(status_code=500, content={"erro": str(e)})
resposta_erro(e) == [status |-> 500, erro |-> e]

\* download_excel
resposta_download(fs, path) ==
    IF ~exists(fs, path)
    THEN [status |-> 404, erro |-> "Arquivo nao encontrado"]
    ELSE IF isfile(fs, path)
    THEN [status |-> 200, filename |-> "resultado_abaco.xlsx", conteudo |-> fs[path]]
    \* FileResponse on a directory: sending it raises after the handler has
    \* returned, outside its try/except; the server answers a bare 500.
    ELSE [status |-> 500, texto |-> "Internal Server Error"]

----------------------------------------------------------------------------
(* Inputs *)

Img(w, h, t) ==
    [filename |-> "foto.png", valid |-> TRUE, w |-> w, h |-> h, truncated |-> t]

NotImage ==
    [filename |-> "nota.txt", valid |-> FALSE, w |-> 0, h |-> 0, truncated |-> FALSE]

Texto(t) == [kind |-> "text", text |-> t, e |-> ""]

Raise == [kind |-> "raise", text |-> <<>>, e |-> "boom"]

\* "T,1": parses with commas.
RespVirgula == <<"T", ",", "1">>
\* "x\ny\nT,1": the comma parse raises, the semicolon parse does not.
RespSoPontoVirgula == <<"x", "\n", "y", "\n", "T", ",", "1">>
\* "x\ny\nT,1;2": both parses raise.
RespNenhum == <<"x", "\n", "y", "\n", "T", ",", "1", ";", "2">>

ValoresBons == <<"1", ",", "1", "0">>
ValoresRuins == <<"1", ",", "a">>
ValoresVirgulaFinal == <<"1", ",">>
CoresDadas == <<"#", "3", ",", "#", "6">>

Dims == {1, LIMITE_METADES, LIMITE_METADES + 1, LIMITE_QUADRANTES,
         LIMITE_QUADRANTES + 1, MaxDim}

\* The concurrent server: few inputs, several requests.
UploadsServer == {Img(800, 600, FALSE)}
ValuesServer == {None, ValoresRuins}
ColorsServer == {None}
OutcomesServer == {Texto(RespVirgula), Raise}

\* The tiling: every size around the thresholds, one request.
UploadsDiv == {Img(w, h, t) : w \in Dims, h \in Dims, t \in BOOLEAN} \cup {NotImage}
ValuesDiv == {None, <<>>, ValoresBons, ValoresRuins, ValoresVirgulaFinal}
ColorsDiv == {None, <<>>, CoresDadas}
OutcomesDiv == {Texto(RespVirgula)}

\* The analysis pipeline: 1, 2 and 4 tiles, every model outcome, one request.
UploadsPipe == {Img(1, 1, FALSE), Img(LIMITE_METADES + 1, 1, FALSE),
                Img(1, LIMITE_METADES + 1, TRUE),
                Img(MaxDim, MaxDim, FALSE), Img(MaxDim, MaxDim, TRUE), NotImage}
ValuesPipe == {None, ValoresRuins}
ColorsPipe == {None}
OutcomesPipe == {Texto(RespVirgula), Texto(RespSoPontoVirgula), Texto(RespNenhum),
                 Texto(<<>>), Raise}

----------------------------------------------------------------------------
(* State *)

\* dl is the response the download handler returns in the step just taken.
NoDl == [path |-> NoPath, resp |-> NoResp]

ReqInit ==
    [pc |-> "idle", file |-> NoFile, colors |-> None, values |-> None,
     partes |-> <<>>, i |-> 0, resultados |-> <<>>, calls |-> <<>>,
     resultado |-> None, tried |-> <<>>, df |-> <<>>,
     excel_path |-> NoPath, made |-> NoPath, err |-> "", resp |-> NoResp]

Init ==
    /\ up = TRUE
    /\ files = (StaticFile :> StaticContent)
    /\ req = [r \in Reqs |-> ReqInit]
    /\ dl = NoDl

Set(r, rec) == req' = [req EXCEPT ![r] = rec]

Falha(r, rec, e) == Set(r, [rec EXCEPT !.pc = "failed", !.err = e])

\* Lines 148-157: analisar_imagem_pil has returned `resultado`; the nested
\* try/except turns it into the DataFrame.
Analisado(rec, resultado) ==
    LET c == converte(resultado) IN
    [rec EXCEPT !.pc = "parsed", !.resultado = resultado,
                !.tried = c.tried, !.df = c.df]

\* Lines 127-137: the request arrives with its form; await file.read().
Receive(r, U, C, V) ==
    /\ up /\ req[r].pc = "idle"
    /\ \E f \in U, c \in C, v \in V, ok \in BOOLEAN :
         LET rec == [req[r] EXCEPT !.file = f, !.colors = c, !.values = v] IN
         IF ok THEN Set(r, [rec EXCEPT !.pc = "read"]) ELSE Falha(r, rec, "read")
    /\ dl' = NoDl
    /\ UNCHANGED <<up, files>>

\* Lines 138-148 and 107-109: PIL.Image.open, the colour and value lists,
\* then analisar_imagem_pil up to its loop (or through its outer except).
Prepare(r) ==
    /\ req[r].pc = "read"
    /\ LET rec == req[r] IN
       IF ~rec.file.valid THEN Falha(r, rec, "open")
       ELSE IF lista_valores(rec.values) = ValueError THEN Falha(r, rec, "values")
       ELSE LET partes == dividir_imagem(rec.file.w, rec.file.h) IN
            \* crop loads the pixel data, which raises on a truncated file:
            \* the outer except of analisar_imagem_pil (lines 120-121).
            IF rec.file.truncated /\ partes[1].crop
            THEN Set(r, Analisado(rec, <<"Erro: ", "truncated">>))
            ELSE Set(r, [rec EXCEPT !.pc = "tiles", !.partes = partes, !.i = 1])
    /\ dl' = NoDl
    /\ UNCHANGED <<up, files>>

\* Lines 111-119: one turn of the loop; after the last one the join, the
\* return and the conversion of the text.
CallModel(r, O) ==
    /\ req[r].pc = "tiles"
    /\ \E o \in O :
         LET rec == req[r]
             res == resultados_apos(rec.resultados, rec.i, o)
             rec2 == [rec EXCEPT
                        !.calls = Append(@, [prompt |-> PROMPT_FIXO,
                                             parte |-> rec.partes[rec.i],
                                             outcome |-> o]),
                        !.resultados = res,
                        !.i = @ + 1]
         IN IF ~fim_do_laco(rec.i, rec.partes, o) THEN Set(r, rec2)
            ELSE Set(r, Analisado(rec2, texto_final(res)))
    /\ dl' = NoDl
    /\ UNCHANGED <<up, files>>

\* Lines 160-161.
CreateTemp(r) ==
    /\ req[r].pc = "parsed"
    /\ \/ /\ Falha(r, req[r], "tempfile")
          /\ UNCHANGED files
       \/ \E p \in NomesLivres(files, gettempdir) :
            /\ files' = (p :> EmptyFile) @@ files
            /\ Set(r, [req[r] EXCEPT !.pc = "created", !.excel_path = p, !.made = p])
    /\ dl' = NoDl
    /\ UNCHANGED up

\* Line 162.
WriteExcel(r) ==
    /\ req[r].pc = "created"
    /\ \/ /\ Falha(r, req[r], "to_excel")
          /\ UNCHANGED files
       \/ /\ files' = to_excel(files, req[r].excel_path, req[r].df)
          /\ Set(r, [req[r] EXCEPT !.pc = "written"])
    /\ dl' = NoDl
    /\ UNCHANGED up

\* Lines 165-170.
Respond(r) ==
    /\ req[r].pc = "written"
    /\ \/ Falha(r, req[r], "response")
       \/ Set(r, [req[r] EXCEPT !.pc = "done",
                    !.resp = resposta_ok(req[r].file, req[r].resultado,
                                         req[r].excel_path)])
    /\ dl' = NoDl
    /\ UNCHANGED <<up, files>>

\* Lines 172-175.
HandleError(r) ==
    /\ req[r].pc = "failed"
    /\ files' = apaga_se_existe(files, req[r].excel_path)
    /\ Set(r, [req[r] EXCEPT !.pc = "done", !.resp = resposta_erro(req[r].err)])
    /\ dl' = NoDl
    /\ UNCHANGED up

DownloadPaths ==
    {Path(gettempdir, n, ".xlsx") : n \in 1..MaxNames}
        \cup {DirPath(gettempdir), StaticFile}

\* Lines 176-195.
Download(path) ==
    /\ up
    /\ dl' = [path |-> path, resp |-> resposta_download(files, path)]
    /\ UNCHANGED <<up, files, req>>

\* The server stops once no request is in flight.
Shutdown ==
    /\ up
    /\ \A r \in Reqs : req[r].pc \in {"idle", "done"}
    /\ up' = FALSE
    /\ IF lifespan_passado THEN UNCHANGED files
       ELSE \E falhas \in SUBSET glob_tmp_xlsx(files) :
              files' = shutdown_event(files, falhas)
    /\ dl' = NoDl
    /\ UNCHANGED req

NextOver(R, U, C, V, O) ==
    \/ \E r \in R : Receive(r, U, C, V)
    \/ \E r \in R : Prepare(r)
    \/ \E r \in R : CallModel(r, O)
    \/ \E r \in R : CreateTemp(r)
    \/ \E r \in R : WriteExcel(r)
    \/ \E r \in R : Respond(r)
    \/ \E r \in R : HandleError(r)
    \/ \E p \in DownloadPaths : Download(p)
    \/ Shutdown

Next == NextOver(Reqs, UploadsServer, ColorsServer, ValuesServer, OutcomesServer)

Spec == Init /\ [][Next]_vars

NextDiv == NextOver({1}, UploadsDiv, ColorsDiv, ValuesDiv, OutcomesDiv)

SpecDiv == Init /\ [][NextDiv]_vars

NextPipe == NextOver({1}, UploadsPipe, ColorsPipe, ValuesPipe, OutcomesPipe)

SpecPipe == Init /\ [][NextPipe]_vars

----------------------------------------------------------------------------
(* Readers of the state used by the properties *)

Done(r) == req[r].pc = "done"

Sucesso(r) == Done(r) /\ req[r].resp.status = 200

\* The path inside the excel_download link of r's success payload.
LinkPath(r) == req[r].resp.excel_download[2]

IOErrors == {"read", "tempfile", "to_excel", "response"}

OuterErrors == IOErrors \cup {"open", "values"}

AlgumaChamadaFalhou(r) ==
    \E k \in 1..Len(req[r].calls) : req[r].calls[k].outcome.kind = "raise"

----------------------------------------------------------------------------
(* C8: tiling *)

Box(p) == p.box

Area(b) == (b[3] - b[1]) * (b[4] - b[2])

Dentro(b, w, h) == 0 <= b[1] /\ b[1] < b[3] /\ b[3] <= w /\ 0 <= b[2] /\ b[2] < b[4] /\ b[4] <= h

Disjuntas(a, b) == a[3] <= b[1] \/ b[3] <= a[1] \/ a[4] <= b[2] \/ b[4] <= a[2]

RECURSIVE SomaAreas(_)
SomaAreas(ps) == IF ps = <<>> THEN 0 ELSE Area(Box(Head(ps))) + SomaAreas(Tail(ps))

\* The boxes the rule names, written out with the thresholds as numbers.
CaixasDaRegra(w, h) ==
    IF w > 3000 /\ h > 3000
    THEN << <<0, 0, w \div 2, h \div 2>>, <<w \div 2, 0, w, h \div 2>>,
            <<0, h \div 2, w \div 2, h>>, <<w \div 2, h \div 2, w, h>> >>
    ELSE IF w > 2000 THEN << <<0, 0, w \div 2, h>>, <<w \div 2, 0, w, h>> >>
    ELSE IF h > 2000 THEN << <<0, 0, w, h \div 2>>, <<0, h \div 2, w, h>> >>
    ELSE << <<0, 0, w, h>> >>

\* C8: for every image size, the tiles dividir_imagem returned are exactly
\* the four quadrants (w > 3000 and h > 3000), else the left and right halves
\* (w > 2000), else the upper and lower halves (h > 2000), else the image
\* itself, uncropped; the tiles are pairwise disjoint, lie inside the image
\* and together have the image's area, so they cover every pixel, odd sizes
\* included.
C8_Tiling ==
    \A r \in Reqs :
        req[r].partes # <<>> =>
            LET w  == req[r].file.w
                h  == req[r].file.h
                ps == req[r].partes
            IN /\ [k \in 1..Len(ps) |-> Box(ps[k])] = CaixasDaRegra(w, h)
               /\ (Len(ps) = 1 <=> ~ps[1].crop)
               /\ \A k \in 1..Len(ps) : Dentro(Box(ps[k]), w, h)
               /\ \A j, k \in 1..Len(ps) : j < k => Disjuntas(Box(ps[j]), Box(ps[k]))
               /\ SomaAreas(ps) = w * h

\* An odd-sized image above both thresholds has been cut into four tiles.
C8_Witness ==
    \E r \in Reqs :
        /\ Len(req[r].partes) = 4
        /\ req[r].file.w = 3001 /\ req[r].file.h = 3001

----------------------------------------------------------------------------
(* C9: one model call per tile *)

NaoVazio(t) == t # <<>>

\* What tile k contributes to the text, from the log of the calls.
Contribuicao(calls, k) ==
    IF calls[k].outcome.kind = "raise"
    THEN <<"Erro na parte ", DigitOf(k), ": ", calls[k].outcome.e>>
    ELSE calls[k].outcome.text

TextoEsperado(calls) ==
    Join(SelectSeq([k \in 1..Len(calls) |-> Contribuicao(calls, k)], NaoVazio), "\n")

\* C9: the model is called once per tile, in tile order, with the fixed
\* prompt and that tile: while the loop runs, the calls made are those for
\* the tiles before the current one; once the loop is over there are exactly
\* as many calls as tiles, whatever each call did (a raised call does not end
\* the loop); and the text returned is the newline-join, in tile order, of
\* each tile's non-empty answer or its "Erro na parte i: ..." text.
C9_OneCallPerTile ==
    \A r \in Reqs :
        LET c == req[r].calls
            ps == req[r].partes
        IN /\ Len(c) <= Len(ps)
           /\ \A k \in 1..Len(c) : c[k].prompt = PROMPT_FIXO /\ c[k].parte = ps[k]
           /\ req[r].pc = "tiles" => Len(c) = req[r].i - 1 /\ Len(c) < Len(ps)
           /\ (req[r].pc # "tiles" /\ ps # <<>>) =>
                  /\ Len(c) = Len(ps)
                  /\ req[r].resultado = TextoEsperado(c)

\* Four tiles: the first call raised, the second answered nothing, the third
\* answered a text, and the analysis has returned.
C9_Witness ==
    \E r \in Reqs :
        /\ req[r].pc = "parsed"
        /\ Len(req[r].calls) = 4
        /\ req[r].calls[1].outcome.kind = "raise"
        /\ req[r].calls[2].outcome = Texto(<<>>)
        /\ req[r].calls[3].outcome = Texto(RespVirgula)

----------------------------------------------------------------------------
(* C10: the order of the two parses *)

Convertido(r) == req[r].df # <<>>

\* C10: the comma parse is always the first attempted; the semicolon parse
\* is attempted exactly when the comma parse raised; the DataFrame is the
\* comma table if that parse succeeded, else the semicolon table if that one
\* succeeded, else the one-row "Erro" table with the raw text; the
\* spreadsheet written holds exactly that table, and resultado_csv of the
\* success payload is the raw model text.
C10_ParseOrder ==
    \A r \in Reqs :
        Convertido(r) =>
            LET t == req[r].resultado
                c == read_csv(t, ",")
                s == read_csv(t, ";")
            IN /\ req[r].tried[1] = ","
               /\ Len(req[r].tried) = (IF c.ok THEN 1 ELSE 2)
               /\ ~c.ok => req[r].tried[2] = ";"
               /\ req[r].df = (IF c.ok THEN c.df
                               ELSE IF s.ok THEN s.df
                               ELSE << << <<"Erro">> >>,
                                       << <<"Nao foi possivel processar o resultado: ">> \o t >> >>)
               /\ req[r].pc = "written" => files[req[r].excel_path] = req[r].df
               /\ Sucesso(r) =>
                      /\ files[LinkPath(r)] = req[r].df
                      /\ req[r].resp.resultado_csv = t

\* A request has succeeded whose text the comma parse rejected and the
\* semicolon parse accepted.
C10_Witness ==
    \E r \in Reqs :
        /\ Sucesso(r)
        /\ req[r].tried = <<",", ";">>
        /\ read_csv(req[r].resultado, ";").ok
        /\ files[LinkPath(r)] = read_csv(req[r].resultado, ";").df

----------------------------------------------------------------------------
(* C1: which exceptions end in a 500 *)

\* C1 as stated: a request in which a model call raised, a CSV parse raised
\* or file I/O raised has ended with a JSON error body and status 500.
C1_Original ==
    \A r \in Reqs :
        (Done(r) /\ (\/ AlgumaChamadaFalhou(r)
                     \/ Len(req[r].tried) = 2
                     \/ req[r].err \in IOErrors))
            => req[r].resp = [status |-> 500, erro |-> req[r].err]

\* C1 amended: a request ends with status 500 and the JSON body {"erro": ...}
\* exactly when an exception reached the outer handler: reading the upload,
\* opening the image, parsing values, creating the temp file, writing the
\* spreadsheet or building the response.  A raised model call or a raised
\* CSV parse is absorbed before that and, with none of the former, the
\* request ends with status 200 and the success payload.
C1_Amended ==
    \A r \in Reqs :
        Done(r) =>
            /\ req[r].resp.status \in {200, 500}
            /\ req[r].resp.status = 500 <=>
                   (\/ ~req[r].file.valid
                    \/ (req[r].values # None /\ req[r].values # <<>>
                        /\ \E k \in 1..Len(Split(req[r].values, ",")) :
                               ~IsInt(Split(req[r].values, ",")[k]))
                    \/ req[r].err \in IOErrors)
            /\ req[r].resp.status = 500 =>
                   /\ req[r].err \in OuterErrors
                   /\ req[r].resp = [status |-> 500, erro |-> req[r].err]
            /\ req[r].resp.status = 200 =>
                   req[r].resp.mensagem = "Analise concluida com sucesso!"

\* A request in which a model call raised and both CSV parses raised has
\* ended with status 200.
C1_Witness ==
    \E r \in Reqs :
        /\ Sucesso(r)
        /\ AlgumaChamadaFalhou(r)
        /\ req[r].df[1] = << <<"Erro">> >>

----------------------------------------------------------------------------
(* C2: colors and values *)

IOErr(r) == IF req[r].err \in IOErrors THEN req[r].err ELSE ""

MesmasRespostasDoModelo(r1, r2) ==
    \A k \in 1..Len(req[r1].calls) :
        k <= Len(req[r2].calls) =>
            req[r1].calls[k].outcome = req[r2].calls[k].outcome

\* C2: two finished requests with the same upload, the same model answers
\* and the same I/O outcomes, differing at most in colors and values, have
\* the same status, the same resultado_csv and the same spreadsheet table.
C2_Unused ==
    \A r1, r2 \in Reqs :
        (/\ Done(r1) /\ Done(r2)
         /\ req[r1].file = req[r2].file
         /\ IOErr(r1) = IOErr(r2)
         /\ MesmasRespostasDoModelo(r1, r2))
            => /\ req[r1].resp.status = req[r2].resp.status
               /\ req[r1].resultado = req[r2].resultado
               /\ req[r1].df = req[r2].df

----------------------------------------------------------------------------
(* C3: shutdown *)

\* C3: once the server has shut down, no temp spreadsheet created by a
\* request of this run exists any more (no deletion fails in this model:
\* none is attempted).
C3_ShutdownCleans ==
    ~up => \A r \in Reqs : req[r].made # NoPath => req[r].made \notin DOMAIN files

----------------------------------------------------------------------------
(* C4: a failed request leaves no file *)

Respondeu500(r) ==
    req[r].pc # "done" /\ req'[r].pc = "done" /\ req'[r].resp.status = 500

Igual(p) ==
    /\ (p \in DOMAIN files <=> p \in DOMAIN files')
    /\ p \in DOMAIN files => files'[p] = files[p]

\* C4: in the step in which a request returns status 500, the temp file it
\* created, if any, does not exist afterwards, and no other file is created,
\* deleted or changed by that step.
C4_ErrorLeavesNoFile ==
    [][\A r \in Reqs :
          Respondeu500(r) =>
              /\ req[r].made # NoPath => req[r].made \notin DOMAIN files'
              /\ \A p \in (DOMAIN files \cup DOMAIN files') \ {req[r].made} : Igual(p)]_vars

\* A request created its temp file, failed afterwards and returned 500, and
\* its file is gone while another request's file is still there.
C4_Witness ==
    \E r, o \in Reqs :
        /\ Done(r) /\ req[r].resp.status = 500
        /\ req[r].made # NoPath /\ req[r].made \notin DOMAIN files
        /\ Sucesso(o) /\ LinkPath(o) \in DOMAIN files

----------------------------------------------------------------------------
(* C5: the link of a success payload stays good *)

\* C5: while the server is up, the path in the excel_download link of every
\* request that returned its success payload names an existing file holding
\* that request's table, and a GET /download_excel/ with that path answers
\* 200 with that table, whatever other requests did in between.
C5_LinkStaysGood ==
    \A r \in Reqs :
        (up /\ Sucesso(r)) =>
            /\ LinkPath(r) = req[r].made
            /\ LinkPath(r) \in DOMAIN files
            /\ files[LinkPath(r)] = req[r].df
            /\ dl.path = LinkPath(r) =>
                   /\ dl.resp.status = 200
                   /\ dl.resp.conteudo = req[r].df

\* A request succeeded, another one then created a file, failed and
\* returned 500, and a download of the first one's link has just been
\* answered.
C5_Witness ==
    \E r, o \in Reqs :
        /\ Sucesso(r)
        /\ Done(o) /\ req[o].resp.status = 500 /\ req[o].made # NoPath
        /\ dl.path = LinkPath(r)
        /\ dl.resp.status = 200

----------------------------------------------------------------------------
(* C6: concurrent requests *)

\* r holds a temp file: created and not yet deleted by its error handler.
Detem(r) ==
    /\ req[r].excel_path # NoPath
    /\ req[r].pc \in {"created", "written", "failed"} \/ Sucesso(r)

Passo(r) == req'[r] # req[r]

\* C6: for every interleaving, after each step the requests that hold a
\* temp file hold pairwise distinct paths, every successful request's file
\* holds that request's own table, and a step of a request creates, writes
\* or deletes a file only at that request's own path, never at a path
\* another request holds.
C6_NoInterference ==
    [][req' # req =>
         /\ \A r1, r2 \in Reqs :
              (r1 # r2 /\ Detem(r1)' /\ Detem(r2)') =>
                  req'[r1].excel_path # req'[r2].excel_path
         /\ \A r \in Reqs : Sucesso(r)' => files'[req'[r].excel_path] = req'[r].df
         /\ files' # files =>
              \A r \in Reqs :
                  Passo(r) =>
                      \A p \in DOMAIN files \cup DOMAIN files' :
                          ~Igual(p) =>
                              /\ p = req'[r].excel_path
                              /\ \A o \in Reqs \ {r} :
                                     Detem(o) => req[o].excel_path # p]_vars

\* Two requests have both succeeded, with different tables in different
\* files.
C6_Witness ==
    \E r1, r2 \in Reqs :
        /\ r1 # r2
        /\ Sucesso(r1) /\ Sucesso(r2)
        /\ req[r1].df # req[r2].df
        /\ LinkPath(r1) # LinkPath(r2)

----------------------------------------------------------------------------
(* C7: download *)

\* C7: a download just answered was answered 404 with the erro body exactly
\* when nothing existed at the path, and in every other case it served the
\* file at that path.
C7_ExistsAlone ==
    dl.path # NoPath =>
        /\ dl.resp.status = 404 <=> ~exists(files, dl.path)
        /\ dl.resp.status = 404 => dl.resp.erro = "Arquivo nao encontrado"
        /\ dl.resp.status # 404 =>
               /\ dl.resp.status = 200
               /\ dl.path \in DOMAIN files
               /\ dl.resp.conteudo = files[dl.path]

====
